---- MODULE Spec2Model ----
(***************************************************************************)
(* Model of the watch/dispatch core of pg_notifications                    *)
(* (src/src/pg_notifcations.py): the click group `cli`, the `watch`        *)
(* command, the generator `iter_events`, and the notification transport    *)
(* (the PostgreSQL connection) they talk to.                               *)
(***************************************************************************)
EXTENDS Integers, Sequences, FiniteSets, TLC

\* ------------------------------------------------------------------ bounds
MaxNotifs == 5      \* notifications the transport delivers in one run
MaxTimeouts == 2    \* select() timeouts in one run

\* ------------------------------------------------------------ option type
\* Python's None is the empty sequence, a value v is <<v>>.
None == <<>>
Some(v) == <<v>>

\* ------------------------------------------------------------------ inputs
\* --timeout values (click type=int, default 0)
TimeoutOptions == {0, 5}

\* timeout arguments a direct caller of iter_events can pass (default None)
TimeoutArgs == {None, Some(0), Some(5)}

\* A dotted identifier is the sequence of its '.'-separated segments; the
\* empty string is the one empty segment.
EmptyString == <<"">>

\* --callback values: not given (None), empty, without a module part, module
\* that cannot be imported, attribute missing, attribute not callable, and
\* the forwarder of src/src/mqtt_forwarder.py.
CallbackOptions ==
    { None,
      Some(EmptyString),
      Some(<<"to_mqtt">>),
      Some(<<"nomodule", "to_mqtt">>),
      Some(<<"mqtt_forwarder", "missing">>),
      Some(<<"mqtt_forwarder", "json">>),
      Some(<<"mqtt_forwarder", "to_mqtt">>) }

\* Payload strings, as sequences of characters:
\*   {"table":"u"}  a JSON object with a table field, double quotes only
\*   {"a":"'"}      a JSON object without a table field, both kinds of quote
\*   a backslash and a raw newline: not JSON
Payloads ==
    { <<"{", "\"", "t", "a", "b", "l", "e", "\"", ":", "\"", "u", "\"", "}">>,
      <<"{", "\"", "a", "\"", ":", "\"", "'", "\"", "}">>,
      <<"\\", "\n">> }

\* A notification as psycopg2 hands it over: notify.pid, .channel, .payload
Notifications == [pid : {101}, channel : {"events"}, payload : Payloads]

\* ------------------------------------------------------- python semantics
\* bool(x) for the values used as conditions: None, 0 and '' are false, a
\* function object is true
TruthyInt(opt) == opt # None /\ opt[1] # 0
TruthyStr(opt) == opt # None /\ opt[1] # EmptyString
TruthyFn(opt) == opt # None

\* str.rsplit('.', 1): at most one split, from the right
RSplit1(ident) ==
    IF Len(ident) < 2 THEN <<ident>>
    ELSE <<SubSeq(ident, 1, Len(ident) - 1), <<ident[Len(ident)]>> >>

\* what importlib.import_module can import, and the attributes found there
\* (src/src/mqtt_forwarder.py: two imported modules and one function)
ImportableModules == { <<"mqtt_forwarder">> }
ModuleAttrs(mod) ==
    IF mod = <<"mqtt_forwarder">>
    THEN [publish |-> "module", json |-> "module", to_mqtt |-> "function"]
    ELSE [a \in {} |-> "module"]

\* getattr(mod, func_name, None) followed by callable(function)
GetAttr(mod, name) ==
    IF name \in DOMAIN ModuleAttrs(mod) THEN Some(name) ELSE None
Callable(mod, attr) ==
    attr # None /\ ModuleAttrs(mod)[attr[1]] = "function"

ResolveSwallow(callback) ==
    IF ~TruthyStr(callback) THEN [err |-> "", function |-> None]
    ELSE LET parts == RSplit1(callback[1]) IN
         IF Len(parts) # 2 THEN [err |-> "ValueError", function |-> None]
         ELSE IF parts[1] \notin ImportableModules
              THEN [err |-> "ImportError", function |-> None]
         ELSE LET attr == GetAttr(parts[1], parts[2][1]) IN
              IF ~Callable(parts[1], attr)
              THEN [err |-> "", function |-> None]
              ELSE [err |-> "", function |-> attr]

\* watch, lines 198-204: the callable for --callback, or the error raised
Resolve(callback) ==
    IF ~TruthyStr(callback) THEN [err |-> "", function |-> None]
    ELSE LET parts == RSplit1(callback[1]) IN
         IF Len(parts) # 2 THEN [err |-> "ValueError", function |-> None]
         ELSE IF parts[1] \notin ImportableModules
              THEN [err |-> "ImportError", function |-> None]
         ELSE LET attr == GetAttr(parts[1], parts[2][1]) IN
              IF ~Callable(parts[1], attr)
              THEN [err |-> "BadArgumentUsage", function |-> None]
              ELSE [err |-> "", function |-> attr]

\* select.select([conn],[],[],timeout or None): the wait's bound
SelectTimeout(timeout) == IF TruthyInt(timeout) THEN timeout ELSE None

\* ------------------------------------------------------------- formatting
RECURSIVE Flatten(_)
Flatten(ss) == IF ss = <<>> THEN <<>> ELSE Head(ss) \o Flatten(Tail(ss))

Chars(s) == { s[i] : i \in DOMAIN s }

\* repr() of a str: the quote is " only when the text has ' and no ";
\* backslash, the quote in use and newline are escaped
IsPlain(s) ==
    /\ "\\" \notin Chars(s)
    /\ "\n" \notin Chars(s)
    /\ ~("'" \in Chars(s) /\ "\"" \in Chars(s))
ReprQuote(s) == IF "'" \in Chars(s) /\ "\"" \notin Chars(s) THEN "\"" ELSE "'"
ReprCharRaw(c, q) ==
    IF c = "\\" THEN <<"\\", "\\">>
    ELSE IF c = q THEN <<"\\", c>>
    ELSE <<c>>
ReprChar(c, q) ==
    IF c = "\\" THEN <<"\\", "\\">>
    ELSE IF c = "\n" THEN <<"\\", "n">>
    ELSE IF c = q THEN <<"\\", c>>
    ELSE <<c>>
ReprStr(s) ==
    LET q == ReprQuote(s) IN
    <<q>> \o Flatten([i \in DOMAIN s |-> ReprChar(s[i], q)]) \o <<q>>

\* the event tuple yielded at line 182, and its str(): "(101, 'events', ...)"
EventOf(notify) == <<notify.pid, notify.channel, notify.payload>>
ReprEvent(ev) ==
    <<"(", ToString(ev[1]), ",", " ">> \o ReprStr(<<ev[2]>>) \o <<",", " ">>
        \o ReprStr(ev[3]) \o <<")">>

\* the lines written to standard output (print, click.echo)
BannerLine == <<"Waiting for notifications on channel '", "events", "'">>
TimeoutLine == <<"Timeout">>
EchoLine(ev) == <<"Received event: ">> \o ReprEvent(ev)

\* ------------------------------------------------------------ json.loads
\* The part of JSON that json.loads accepts and the payloads can spell:
\* objects, arrays, strings with the short escapes, unsigned integers and
\* the three literals, with whitespace between tokens.
JsonWs == {" ", "\n", "\t", "\r"}
JsonDigits == {"0", "1", "2", "3", "4", "5", "6", "7", "8", "9"}
JsonEscapes ==
    [c \in {"\"", "\\", "/", "n", "t", "r", "f"} |->
        IF c = "n" THEN "\n"
        ELSE IF c = "t" THEN "\t"
        ELSE IF c = "r" THEN "\r"
        ELSE IF c = "f" THEN "\f"
        ELSE c]
JsonLiterals ==
    { <<"t", "r", "u", "e">>, <<"f", "a", "l", "s", "e">>,
      <<"n", "u", "l", "l">> }

\* a parsed value: its kind ("str", "num", "lit", "obj", "arr"), its text,
\* and for an object its <<key, value>> pairs, for an array its elements
JsonVal(kind, chars, items) == [kind |-> kind, chars |-> chars, items |-> items]
JsonFail == [ok |-> FALSE, val |-> <<>>, rest |-> <<>>]
JsonOk(val, rest) == [ok |-> TRUE, val |-> val, rest |-> rest]

StartsWith(s, pre) == Len(pre) <= Len(s) /\ SubSeq(s, 1, Len(pre)) = pre

RECURSIVE SkipWs(_)
SkipWs(s) == IF s # <<>> /\ Head(s) \in JsonWs THEN SkipWs(Tail(s)) ELSE s

\* the text of a string, after its opening quote
RECURSIVE ScanString(_, _)
ScanString(s, acc) ==
    IF s = <<>> THEN JsonFail
    ELSE IF Head(s) = "\"" THEN JsonOk(JsonVal("str", acc, <<>>), Tail(s))
    ELSE IF Head(s) = "\\"
         THEN IF Len(s) >= 2 /\ s[2] \in DOMAIN JsonEscapes
              THEN ScanString(SubSeq(s, 3, Len(s)),
                              Append(acc, JsonEscapes[s[2]]))
              ELSE JsonFail
    ELSE IF Head(s) \in {"\n", "\t", "\r", "\f"} THEN JsonFail
    ELSE ScanString(Tail(s), Append(acc, Head(s)))

RECURSIVE ScanDigits(_, _)
ScanDigits(s, acc) ==
    IF s # <<>> /\ Head(s) \in JsonDigits
    THEN ScanDigits(Tail(s), Append(acc, Head(s)))
    ELSE JsonOk(JsonVal("num", acc, <<>>), s)

RECURSIVE ParseValue(_)
RECURSIVE ParseMembers(_, _)
RECURSIVE ParseElements(_, _)

ParseValue(s0) ==
    LET s == SkipWs(s0) IN
    IF s = <<>> THEN JsonFail
    ELSE IF Head(s) = "\"" THEN ScanString(Tail(s), <<>>)
    ELSE IF Head(s) = "{"
         THEN LET t == SkipWs(Tail(s)) IN
              IF t # <<>> /\ Head(t) = "}"
              THEN JsonOk(JsonVal("obj", <<>>, <<>>), Tail(t))
              ELSE ParseMembers(t, <<>>)
    ELSE IF Head(s) = "["
         THEN LET t == SkipWs(Tail(s)) IN
              IF t # <<>> /\ Head(t) = "]"
              THEN JsonOk(JsonVal("arr", <<>>, <<>>), Tail(t))
              ELSE ParseElements(t, <<>>)
    ELSE IF Head(s) = "0" THEN JsonOk(JsonVal("num", <<"0">>, <<>>), Tail(s))
    ELSE IF Head(s) \in JsonDigits THEN ScanDigits(s, <<>>)
    ELSE IF \E lit \in JsonLiterals : StartsWith(s, lit)
         THEN LET lit == CHOOSE l \in JsonLiterals : StartsWith(s, l) IN
              JsonOk(JsonVal("lit", lit, <<>>), SubSeq(s, Len(lit) + 1, Len(s)))
    ELSE JsonFail

\* "key" : value, then "," and more, or "}"
ParseMembers(s, acc) ==
    IF s = <<>> \/ Head(s) # "\"" THEN JsonFail
    ELSE LET k == ScanString(Tail(s), <<>>) IN
         IF ~k.ok THEN JsonFail
         ELSE LET t == SkipWs(k.rest) IN
              IF t = <<>> \/ Head(t) # ":" THEN JsonFail
              ELSE LET v == ParseValue(Tail(t)) IN
                   IF ~v.ok THEN JsonFail
                   ELSE LET u == SkipWs(v.rest)
                            more == Append(acc, <<k.val.chars, v.val>>)
                        IN IF u = <<>> THEN JsonFail
                           ELSE IF Head(u) = "}"
                                THEN JsonOk(JsonVal("obj", <<>>, more), Tail(u))
                           ELSE IF Head(u) = ","
                                THEN ParseMembers(SkipWs(Tail(u)), more)
                           ELSE JsonFail

\* value, then "," and more, or "]"
ParseElements(s, acc) ==
    LET v == ParseValue(s) IN
    IF ~v.ok THEN JsonFail
    ELSE LET u == SkipWs(v.rest)
             more == Append(acc, v.val)
         IN IF u = <<>> THEN JsonFail
            ELSE IF Head(u) = "]" THEN JsonOk(JsonVal("arr", <<>>, more), Tail(u))
            ELSE IF Head(u) = "," THEN ParseElements(Tail(u), more)
            ELSE JsonFail

\* json.loads: one value and nothing but whitespace after it
JsonLoads(text) ==
    LET r == ParseValue(text) IN
    IF r.ok /\ SkipWs(r.rest) = <<>> THEN r ELSE JsonFail

DictGetKeyAsDefault(obj, key, default) ==
    LET hits == { i \in DOMAIN obj.items : obj.items[i][1] = key } IN
    IF hits = {} THEN JsonVal("str", key, <<>>)
    ELSE obj.items[CHOOSE i \in hits : \A j \in hits : j <= i][2]
\* dict.get(key, default): the value of the last member with that key
DictGet(obj, key, default) ==
    LET hits == { i \in DOMAIN obj.items : obj.items[i][1] = key } IN
    IF hits = {} THEN default
    ELSE obj.items[CHOOSE i \in hits : \A j \in hits : j <= i][2]

\* ---------------------------------------------------------------- to_mqtt
\* mqtt_forwarder.to_mqtt, lines 5-7: the topic of the message, or the
\* failure of json.loads (ValueError) or of .get on a value that is not a
\* dict (AttributeError)
TableKey == <<"t", "a", "b", "l", "e">>
DefaultTopic == JsonVal("str", <<"e", "v", "e", "n", "t", "s">>, <<>>)
ToMqttTopic(ev) ==
    LET r == JsonLoads(ev[3]) IN
    IF ~r.ok THEN [ok |-> FALSE, err |-> "ValueError", topic |-> DefaultTopic]
    ELSE IF r.val.kind # "obj"
         THEN [ok |-> FALSE, err |-> "AttributeError", topic |-> DefaultTopic]
    ELSE [ok |-> TRUE, err |-> "",
          topic |-> DictGet(r.val, TableKey, DefaultTopic)]

\* ------------------------------------------------------------------ state
VARIABLES
    argv,        \* the command line: [timeout, callback, ipc]
    pc,          \* where the controlling thread is
    mode,        \* branch of watch taken: "none", "ECHO", "INLINE", "DECOUPLED", "STREAM"
    err,         \* the exception that ended the run ("" while none)
    conn,        \* ctx.obj['CONN']: "closed" or "open"
    function,    \* watch's local `function`
    listening,   \* the server has executed LISTEN for this connection
    socket,      \* notifications sent by the server, not yet read by the client
    notifies,    \* conn.notifies
    it_pc,       \* the generator iter_events: "none", "unstarted", "executing",
                 \* "select", "drain", "yielded"
    it_timeout,  \* iter_events' parameter `timeout`
    curs,        \* iter_events' cursor `curs`: "none", "open", "closed"
    event,       \* the loop variable `event` (None outside the loop body)
    stdout,      \* lines written by print / click.echo
    timeouts,    \* number of waits that timed out
    queue,       \* multiprocessing.Queue: None, or Some(contents)
    back,        \* Process `back`: "none", "initial", "started", "stopped"
    front,       \* Process `front`
    back_args,   \* what `back` was given as args (names of watch's locals)
    delivered,   \* history: notifications the transport delivered
    yielded,     \* history: events iter_events yielded
    handled,     \* history: events the handler was called with
    published    \* history: the calls of publish.single, [topic, payload]

vars == <<argv, pc, mode, err, conn, function, listening, socket, notifies,
          it_pc, it_timeout, curs, event, stdout, timeouts, queue, back,
          front, back_args, delivered, yielded, handled, published>>

cliVars == <<argv, conn, function>>
workerVars == <<queue, back, front, back_args>>
streamVars ==
    <<listening, socket, notifies, it_pc, it_timeout, curs, stdout, timeouts>>
histVars == <<delivered, yielded, handled, published>>

\* `python pg_notifcations.py [--conn ..] watch [--timeout T] [--callback C] [--ipc]`
Init ==
    /\ argv \in [timeout : TimeoutOptions, callback : CallbackOptions,
                 ipc : BOOLEAN]
    /\ pc = "cli"
    /\ mode = "none"
    /\ err = ""
    /\ conn = "closed"
    /\ function = None
    /\ listening = FALSE
    /\ socket = <<>>
    /\ notifies = <<>>
    /\ it_pc = "none"
    /\ it_timeout = None
    /\ curs = "none"
    /\ event = None
    /\ stdout = <<>>
    /\ timeouts = 0
    /\ queue = None
    /\ back = "none"
    /\ front = "none"
    /\ back_args = {}
    /\ delivered = <<>>
    /\ yielded = <<>>
    /\ handled = <<>>
    /\ published = <<>>

\* an exception leaves the command
Raise(e) == pc' = "failed" /\ err' = e

\* ---------------------------------------------------------------- cli group
\* cli, lines 105-113: psycopg2.connect succeeds
CliConnect ==
    /\ pc = "cli"
    /\ conn' = "open"
    /\ pc' = "watch"
    /\ UNCHANGED <<argv, mode, err, function, event>>
    /\ UNCHANGED <<workerVars, streamVars, histVars>>

\* cli, lines 108-109: psycopg2.OperationalError becomes a usage error
CliConnectFail ==
    /\ pc = "cli"
    /\ Raise("BadArgumentUsage")
    /\ UNCHANGED <<argv, mode, conn, function, event>>
    /\ UNCHANGED <<workerVars, streamVars, histVars>>

\* ------------------------------------------------------------------- watch
\* watch, lines 198-204
WatchResolve ==
    /\ pc = "watch"
    /\ LET r == Resolve(argv.callback) IN
       IF r.err # ""
       THEN Raise(r.err) /\ UNCHANGED function
       ELSE pc' = "dispatch" /\ function' = r.function /\ UNCHANGED err
    /\ UNCHANGED <<argv, mode, conn, event>>
    /\ UNCHANGED <<workerVars, streamVars, histVars>>

WatchIpcNoCallbackLate ==
    /\ pc = "dispatch"
    /\ argv.ipc
    /\ ~TruthyFn(function)
    /\ queue' = Some(<<>>)
    /\ back' = "initial"
    /\ front' = "initial"
    /\ UNCHANGED back_args
    /\ Raise("BadArgumentUsage")
    /\ UNCHANGED <<argv, mode, conn, function, event>>
    /\ UNCHANGED <<streamVars, histVars>>

\* watch, lines 206-208: --ipc without a callable
WatchIpcNoCallback ==
    /\ pc = "dispatch"
    /\ argv.ipc
    /\ ~TruthyFn(function)
    /\ Raise("BadArgumentUsage")
    /\ UNCHANGED <<argv, mode, conn, function, event>>
    /\ UNCHANGED <<workerVars, streamVars, histVars>>

\* watch, lines 210-219: the queue and the two Process objects are created;
\* neither Process is started
WatchIpcCreate ==
    /\ pc = "dispatch"
    /\ argv.ipc
    /\ TruthyFn(function)
    /\ mode' = "DECOUPLED"
    /\ queue' = Some(<<>>)
    /\ back' = "initial"
    /\ front' = "initial"
    /\ back_args' = {"queue", "ctx"}
    /\ pc' = "join_back"
    /\ UNCHANGED <<argv, err, conn, function, event>>
    /\ UNCHANGED <<streamVars, histVars>>

\* watch, line 220: Process.join on a Process that was never started raises
\* (AssertionError: can only join a started process)
JoinBack ==
    /\ pc = "join_back"
    /\ back # "started"
    /\ Raise("AssertionError")
    /\ UNCHANGED <<argv, mode, conn, function, event>>
    /\ UNCHANGED <<workerVars, streamVars, histVars>>

\* watch, lines 210-212 (listen_to_queue, the target of `back`): the reader
\* puts an event on the queue; Queue() has no maxsize, so put never waits
\* for room. The step needs the Process to have been started.
ReaderEnqueue(ev) ==
    /\ back = "started"
    /\ queue # None
    /\ queue' = Some(Append(queue[1], ev))
    /\ UNCHANGED <<argv, pc, mode, err, conn, function, event, back, front,
                   back_args>>
    /\ UNCHANGED <<streamVars, histVars>>

\* watch, lines 223-224: `for event in iter_events(ctx)` with a handler
WatchInline ==
    /\ pc = "dispatch"
    /\ ~argv.ipc
    /\ TruthyFn(function)
    /\ mode' = "INLINE"
    /\ it_pc' = "unstarted"
    /\ it_timeout' = None
    /\ pc' = "next"
    /\ UNCHANGED <<argv, err, conn, function, event>>
    /\ UNCHANGED <<listening, socket, notifies, curs, stdout, timeouts>>
    /\ UNCHANGED <<workerVars, histVars>>

\* watch, lines 226-227: `for event in iter_events(ctx)` without a handler
WatchEcho ==
    /\ pc = "dispatch"
    /\ ~argv.ipc
    /\ ~TruthyFn(function)
    /\ mode' = "ECHO"
    /\ it_pc' = "unstarted"
    /\ it_timeout' = None
    /\ pc' = "next"
    /\ UNCHANGED <<argv, err, conn, function, event>>
    /\ UNCHANGED <<listening, socket, notifies, curs, stdout, timeouts>>
    /\ UNCHANGED <<workerVars, histVars>>

\* ------------------------------------------------------------- iter_events
\* the thread is inside next() on the generator
InNext == pc = "next" /\ conn = "open"

PopLast(ns) == Len(ns)
\* list.pop(0), line 181: the index taken from conn.notifies
PopIndex(ns) == 1

RemoveNothing(ns, i) == ns
RemoveAt(ns, i) == SubSeq(ns, 1, i - 1) \o SubSeq(ns, i + 1, Len(ns))

\* iter_events, lines 168-172: first next(); the LISTEN statement reaches the
\* server, which from now on sends this connection the channel's notifications
IterListen ==
    /\ InNext
    /\ it_pc = "unstarted"
    /\ curs' = "open"
    /\ listening' = TRUE
    /\ it_pc' = "executing"
    /\ UNCHANGED <<argv, pc, mode, err, conn, function, event>>
    /\ UNCHANGED <<socket, notifies, it_timeout, stdout, timeouts>>
    /\ UNCHANGED <<workerVars, histVars>>

\* iter_events, lines 172-174: curs.execute returns; notifications that came
\* in with the statement's reply are put on conn.notifies by the driver; the
\* banner is printed
IterListenDone ==
    /\ InNext
    /\ it_pc = "executing"
    /\ notifies' = notifies \o socket
    /\ socket' = <<>>
    /\ stdout' = Append(stdout, BannerLine)
    /\ it_pc' = "select"
    /\ UNCHANGED <<argv, pc, mode, err, conn, function, event>>
    /\ UNCHANGED <<listening, it_timeout, curs, timeouts>>
    /\ UNCHANGED <<workerVars, histVars>>

\* iter_events, lines 176, 178-179: select reports the connection readable,
\* conn.poll() reads the socket and appends to conn.notifies
IterSelectReady ==
    /\ InNext
    /\ it_pc = "select"
    /\ socket # <<>>
    /\ notifies' = notifies \o socket
    /\ socket' = <<>>
    /\ it_pc' = "drain"
    /\ UNCHANGED <<argv, pc, mode, err, conn, function, event>>
    /\ UNCHANGED <<listening, it_timeout, curs, stdout, timeouts>>
    /\ UNCHANGED <<workerVars, histVars>>

IterSelectTimeoutRaise ==
    /\ InNext
    /\ it_pc = "select"
    /\ SelectTimeout(it_timeout) # None
    /\ socket = <<>>
    /\ timeouts < MaxTimeouts
    /\ timeouts' = timeouts + 1
    /\ Raise("Timeout")
    /\ UNCHANGED <<argv, mode, conn, function, event>>
    /\ UNCHANGED <<listening, socket, notifies, it_pc, it_timeout, curs, stdout>>
    /\ UNCHANGED <<workerVars, histVars>>

IterSelectTimeoutReturn ==
    /\ InNext
    /\ it_pc = "select"
    /\ SelectTimeout(it_timeout) # None
    /\ socket = <<>>
    /\ timeouts < MaxTimeouts
    /\ timeouts' = timeouts + 1
    /\ event' = Some(<<"TimeoutSignal">>)
    /\ pc' = "body"
    /\ it_pc' = "yielded"
    /\ UNCHANGED <<argv, mode, err, conn, function>>
    /\ UNCHANGED <<listening, socket, notifies, it_timeout, curs, stdout>>
    /\ UNCHANGED <<workerVars, histVars>>

\* iter_events, lines 176-177: the wait is bounded and nothing arrived
IterSelectTimeout ==
    /\ InNext
    /\ it_pc = "select"
    /\ SelectTimeout(it_timeout) # None
    /\ socket = <<>>
    /\ timeouts < MaxTimeouts
    /\ timeouts' = timeouts + 1
    /\ stdout' = Append(stdout, TimeoutLine)
    /\ UNCHANGED <<argv, pc, mode, err, conn, function, event>>
    /\ UNCHANGED <<listening, socket, notifies, it_pc, it_timeout, curs>>
    /\ UNCHANGED <<workerVars, histVars>>

\* iter_events, line 180: conn.notifies is empty, back to the wait
IterDrainEmpty ==
    /\ InNext
    /\ it_pc = "drain"
    /\ notifies = <<>>
    /\ it_pc' = "select"
    /\ UNCHANGED <<argv, pc, mode, err, conn, function, event>>
    /\ UNCHANGED <<listening, socket, notifies, it_timeout, curs, stdout, timeouts>>
    /\ UNCHANGED <<workerVars, histVars>>

\* iter_events, lines 180-182: pop one notification and yield its tuple; the
\* generator is suspended and the loop body of the consumer runs
IterYield ==
    /\ InNext
    /\ it_pc = "drain"
    /\ notifies # <<>>
    /\ LET i == PopIndex(notifies) IN
       /\ notifies' = RemoveAt(notifies, i)
       /\ event' = Some(EventOf(notifies[i]))
       /\ yielded' = Append(yielded, EventOf(notifies[i]))
    /\ it_pc' = "yielded"
    /\ pc' = "body"
    /\ UNCHANGED <<argv, mode, err, conn, function>>
    /\ UNCHANGED <<listening, socket, it_timeout, curs, stdout, timeouts>>
    /\ UNCHANGED <<workerVars, delivered, handled, published>>

\* ------------------------------------------------------------ loop bodies
\* watch, line 228: click.echo, then the for statement resumes the generator
EchoEvent ==
    /\ pc = "body"
    /\ mode = "ECHO"
    /\ stdout' = Append(stdout, EchoLine(event[1]))
    /\ event' = None
    /\ pc' = "next"
    /\ it_pc' = "drain"
    /\ UNCHANGED <<argv, mode, err, conn, function>>
    /\ UNCHANGED <<listening, socket, notifies, it_timeout, curs, timeouts>>
    /\ UNCHANGED <<workerVars, histVars>>

InlineCallTwice ==
    /\ pc = "body"
    /\ mode = "INLINE"
    /\ handled' = handled \o <<event[1], event[1]>>
    /\ pc' = "handler"
    /\ UNCHANGED <<argv, mode, err, conn, function, event>>
    /\ UNCHANGED <<workerVars, streamVars, delivered, yielded, published>>

\* watch, line 225: function(event) is entered
InlineCall ==
    /\ pc = "body"
    /\ mode = "INLINE"
    /\ handled' = Append(handled, event[1])
    /\ pc' = "handler"
    /\ UNCHANGED <<argv, mode, err, conn, function, event>>
    /\ UNCHANGED <<workerVars, streamVars, delivered, yielded, published>>

\* mqtt_forwarder.to_mqtt, lines 5-13: the payload parsed to an object, the
\* topic taken, publish.single is called with the topic and the payload
ToMqttPublish ==
    /\ pc = "handler"
    /\ ToMqttTopic(event[1]).ok
    /\ published' = Append(published,
           [topic |-> ToMqttTopic(event[1]).topic, payload |-> event[1][3]])
    /\ pc' = "publish"
    /\ UNCHANGED <<argv, mode, err, conn, function, event>>
    /\ UNCHANGED <<workerVars, streamVars, delivered, yielded, handled>>

\* the handler raises: json.loads or .get failed (mqtt_forwarder lines 6-7),
\* or publish.single did (line 9: the broker cannot be reached, the topic is
\* refused)
HandlerFails ==
    \/ pc = "handler" /\ ~ToMqttTopic(event[1]).ok
    \/ pc = "publish"

\* watch, lines 224-225: publish.single and the handler return, the for
\* statement resumes the generator
HandlerReturn ==
    /\ pc = "publish"
    /\ event' = None
    /\ pc' = "next"
    /\ it_pc' = "drain"
    /\ UNCHANGED <<argv, mode, err, conn, function>>
    /\ UNCHANGED <<listening, socket, notifies, it_timeout, curs, stdout, timeouts>>
    /\ UNCHANGED <<workerVars, histVars>>

HandlerRaiseSwallowed ==
    /\ HandlerFails
    /\ event' = None
    /\ pc' = "next"
    /\ it_pc' = "drain"
    /\ err' = "HandlerError"
    /\ UNCHANGED <<argv, mode, conn, function>>
    /\ UNCHANGED <<listening, socket, notifies, it_timeout, curs, stdout, timeouts>>
    /\ UNCHANGED <<workerVars, histVars>>

\* watch, line 225: the handler raises; nothing in watch catches it
HandlerRaise ==
    /\ HandlerFails
    /\ Raise("HandlerError")
    /\ UNCHANGED <<argv, mode, conn, function, event>>
    /\ UNCHANGED <<workerVars, streamVars, histVars>>

\* a caller of iter_events takes the event and asks for the next one
CallerNext ==
    /\ pc = "body"
    /\ mode = "STREAM"
    /\ event' = None
    /\ pc' = "next"
    /\ it_pc' = "drain"
    /\ UNCHANGED <<argv, mode, err, conn, function>>
    /\ UNCHANGED <<listening, socket, notifies, it_timeout, curs, stdout, timeouts>>
    /\ UNCHANGED <<workerVars, histVars>>

\* -------------------------------------------------------------- transport
\* the server sends a notification of the channel to the listening connection
Deliver(n) ==
    /\ listening
    /\ pc # "failed"
    /\ Len(delivered) < MaxNotifs
    /\ socket' = Append(socket, n)
    /\ delivered' = Append(delivered, n)
    /\ UNCHANGED <<argv, pc, mode, err, conn, function, event>>
    /\ UNCHANGED <<listening, notifies, it_pc, it_timeout, curs, stdout, timeouts>>
    /\ UNCHANGED <<workerVars, yielded, handled, published>>

\* ---------------------------------------------------------- specifications
Next ==
    \/ CliConnect
    \/ CliConnectFail
    \/ WatchResolve
    \/ WatchIpcNoCallback
    \/ WatchIpcCreate
    \/ JoinBack
    \/ WatchInline
    \/ WatchEcho
    \/ IterListen
    \/ IterListenDone
    \/ IterSelectReady
    \/ IterDrainEmpty
    \/ IterYield
    \/ EchoEvent
    \/ InlineCall
    \/ ToMqttPublish
    \/ HandlerReturn
    \/ HandlerRaise
    \/ \E n \in Notifications : Deliver(n)

Spec == Init /\ [][Next]_vars

\* iter_events called directly, on an open connection, with any timeout
InitStream ==
    /\ argv = [timeout |-> 0, callback |-> None, ipc |-> FALSE]
    /\ pc = "next"
    /\ mode = "STREAM"
    /\ err = ""
    /\ conn = "open"
    /\ function = None
    /\ listening = FALSE
    /\ socket = <<>>
    /\ notifies = <<>>
    /\ it_pc = "unstarted"
    /\ it_timeout \in TimeoutArgs
    /\ curs = "none"
    /\ event = None
    /\ stdout = <<>>
    /\ timeouts = 0
    /\ queue = None
    /\ back = "none"
    /\ front = "none"
    /\ back_args = {}
    /\ delivered = <<>>
    /\ yielded = <<>>
    /\ handled = <<>>
    /\ published = <<>>

NextStream ==
    \/ IterListen
    \/ IterListenDone
    \/ IterSelectReady
    \/ IterSelectTimeout
    \/ IterDrainEmpty
    \/ IterYield
    \/ CallerNext
    \/ \E n \in Notifications : Deliver(n)

SpecStream == InitStream /\ [][NextStream]_vars

\* ------------------------------------------------------------- properties
Events(ns) == [i \in DOMAIN ns |-> EventOf(ns[i])]
IsPrefix(s, t) == Len(s) <= Len(t) /\ s = SubSeq(t, 1, Len(s))
Contains(line, s) ==
    \E i \in 1..(Len(line) - Len(s) + 1) : SubSeq(line, i, i + Len(s) - 1) = s

\* C1: the events iter_events has yielded are, in order, the first of the
\* notifications the transport delivered (nothing reordered, merged or
\* yielded twice), and every delivered notification is either yielded or
\* still waiting in the socket or in conn.notifies (nothing dropped).
C1_OrderPreserved ==
    /\ IsPrefix(yielded, Events(delivered))
    /\ Len(yielded) + Len(notifies) + Len(socket) = Len(delivered)

\* three different notifications went through, in the order of delivery
C1_Witness ==
    /\ mode \in {"ECHO", "INLINE"}
    /\ Len(yielded) = 3
    /\ Len(delivered) = 3
    /\ yielded[1] # yielded[2]
    /\ yielded[2] # yielded[3]
    /\ yielded[1] # yielded[3]

\* C2: in inline mode, once the handler has raised the session has failed,
\* the handler was called on exactly the events yielded so far (the last
\* being the one it raised on), and it is never called again.
C2_FailFastState ==
    (mode = "INLINE" /\ err = "HandlerError") =>
        /\ pc = "failed"
        /\ handled = yielded
        /\ event = Some(handled[Len(handled)])
        /\ IsPrefix(handled, Events(delivered))

C2_FailFast ==
    /\ []C2_FailFastState
    /\ [][err = "HandlerError" => (handled' = handled /\ pc' = "failed")]_vars

\* the handler raised on the 3rd event while two more were already buffered
C2_Witness ==
    /\ mode = "INLINE"
    /\ err = "HandlerError"
    /\ Len(handled) = 3
    /\ Len(notifies) >= 1
    /\ Len(notifies) + Len(socket) >= 2

\* --ipc with no usable --callback
IpcNoHandler == argv.ipc /\ ~TruthyStr(argv.callback)

\* C3 as stated: with --ipc and no handler there is never a connection, a
\* LISTEN, a worker or an event.
C3_NoConnectionOpened ==
    IpcNoHandler =>
        /\ conn = "closed"
        /\ ~listening
        /\ queue = None /\ back = "none" /\ front = "none"
        /\ yielded = <<>> /\ handled = <<>> /\ stdout = <<>>

\* C3 (amended): with --ipc and no handler, watch never gets past its
\* validation: no LISTEN is issued, no queue or worker is created and no
\* event is processed; the connection has been opened by the cli group.
C3_NoSessionActivity ==
    IpcNoHandler =>
        /\ pc \in {"cli", "watch", "dispatch", "failed"}
        /\ mode = "none"
        /\ ~listening
        /\ it_pc = "none"
        /\ queue = None /\ back = "none" /\ front = "none"
        /\ yielded = <<>> /\ handled = <<>> /\ stdout = <<>>
        /\ (pc = "failed" /\ conn = "open" => err = "BadArgumentUsage")

\* watch has rejected --ipc without a handler, on an open connection
C3_Witness ==
    /\ IpcNoHandler
    /\ pc = "failed"
    /\ err = "BadArgumentUsage"
    /\ conn = "open"

\* C4 as stated (safety part): once decoupled mode has created its two
\* units, the reader and the runner are both running.
C4_BothUnitsRunning ==
    (mode = "DECOUPLED" /\ pc = "join_back") =>
        (back = "started" /\ front = "started")

\* C5: a wait that times out raises nothing, yields nothing and leaves the
\* generator at the wait; a notification that arrives after timeouts can
\* still be read.
C5_TimeoutState ==
    (timeouts > 0 /\ pc = "next" /\ it_pc = "select" /\ socket # <<>>) =>
        ENABLED IterSelectReady

C5_TimeoutNotFailure ==
    /\ []C5_TimeoutState
    /\ []C1_OrderPreserved
    /\ [][timeouts' # timeouts =>
            /\ err' = "" /\ pc' = "next" /\ it_pc' = "select"
            /\ yielded' = yielded /\ event' = event
            /\ notifies' = notifies]_vars

\* every allowed timeout happened before the only notification arrived, and
\* that notification has been yielded
C5_Witness ==
    /\ mode = "STREAM"
    /\ timeouts = MaxTimeouts
    /\ Len(delivered) = 1
    /\ yielded = Events(delivered)
    /\ it_pc = "yielded"

\* C6 as stated: the bound of every wait is the --timeout of the session
\* (none when --timeout is 0).
C6_TimeoutGovernsWait ==
    (mode \in {"ECHO", "INLINE"} /\ it_pc = "select") =>
        SelectTimeout(it_timeout) =
            (IF argv.timeout > 0 THEN Some(argv.timeout) ELSE None)

\* C7 as stated: in decoupled mode, whatever the runner is doing (a handler
\* call included), the reader can put the next event on the queue.
C7_ReaderNeverBlocked ==
    (mode = "DECOUPLED" /\ pc = "join_back") =>
        \A n \in Notifications : ENABLED ReaderEnqueue(EventOf(n))

\* the value a stop token would have on the queue
StopToken == <<"STOP">>

\* C8 as stated (safety part): in decoupled mode, when the reader is not
\* running, the runner has terminated or a stop token is on the queue for it.
C8_RunnerStopped ==
    (mode = "DECOUPLED" /\ back # "started") =>
        \/ front = "stopped"
        \/ \E i \in DOMAIN queue[1] : queue[1][i] = StopToken

\* the events echo mode has printed: all yielded but the one in the body
Echoed == IF pc = "body" THEN SubSeq(yielded, 1, Len(yielded) - 1) ELSE yielded

\* C9 as stated: in echo mode the output is exactly one line per
\* notification, in order, each containing the payload unmodified.
C9_OnlyEventLines ==
    mode = "ECHO" =>
        /\ Len(stdout) = Len(Echoed)
        /\ \A i \in DOMAIN stdout : Contains(stdout[i], Echoed[i][3])

\* C9 (amended): in echo mode the output is the banner line followed by
\* exactly one line per notification, in delivery order; each such line has
\* no line break inside and holds the payload as repr() writes it, which is
\* the payload unmodified when it has no backslash, no newline and not both
\* kinds of quote.
C9_BannerThenEventLines ==
    mode = "ECHO" =>
        /\ Len(stdout) =
              (IF it_pc \in {"unstarted", "executing"} THEN 0 ELSE 1)
                  + Len(Echoed)
        /\ stdout # <<>> => stdout[1] = BannerLine
        /\ IsPrefix(Echoed, Events(delivered))
        /\ \A i \in DOMAIN Echoed :
              LET line == stdout[i + 1] IN
              /\ line[1] = "Received event: "
              /\ "\n" \notin Chars(line)
              /\ Len(line) >= 2 + Len(Echoed[i][3])
              /\ IsPlain(Echoed[i][3]) => Contains(line, Echoed[i][3])

\* three notifications echoed, one of them with a payload repr() escapes
C9_Witness ==
    /\ mode = "ECHO"
    /\ Len(stdout) = 4
    /\ Len(Echoed) = 3
    /\ IsPlain(Echoed[1][3])
    /\ ~IsPlain(Echoed[2][3])
    /\ "\n" \in Chars(Echoed[3][3])

\* --callback values that name no callable: no module part, module that
\* cannot be imported, attribute missing, attribute not callable
UnresolvableCallbacks ==
    { Some(<<"to_mqtt">>),
      Some(<<"nomodule", "to_mqtt">>),
      Some(<<"mqtt_forwarder", "missing">>),
      Some(<<"mqtt_forwarder", "json">>) }

\* C10: when --callback names no callable, watch fails while resolving it,
\* with or without --ipc: it never chooses a mode, never issues LISTEN, never
\* creates a worker and never processes an event.
C10_UnresolvedFailsFirst ==
    argv.callback \in UnresolvableCallbacks =>
        /\ pc \in {"cli", "watch", "failed"}
        /\ mode = "none"
        /\ function = None
        /\ ~listening
        /\ it_pc = "none"
        /\ queue = None /\ back = "none" /\ front = "none"
        /\ yielded = <<>> /\ handled = <<>> /\ stdout = <<>>
        /\ (pc = "failed" /\ conn = "open" =>
               err \in {"ValueError", "ImportError", "BadArgumentUsage"})

\* watch has failed on an attribute that is not callable, --ipc given
C10_Witness ==
    /\ argv.callback = Some(<<"mqtt_forwarder", "json">>)
    /\ argv.ipc
    /\ pc = "failed"
    /\ conn = "open"
    /\ err = "BadArgumentUsage"

\* C11 as stated: in decoupled mode, when the runner is not running (it died
\* on a handler failure), the reader is still running.
C11_ReaderOutlivesRunner ==
    (mode = "DECOUPLED" /\ front # "started") => back = "started"

\* C12 as stated (the mechanism): in decoupled mode the reader is given a
\* way to notice that the runner died: the runner's handle or a stop signal
\* is among what the reader receives.
C12_ReaderCanNoticeRunner ==
    mode = "DECOUPLED" => ("front" \in back_args \/ "stop" \in back_args)

\* C13 as stated: when the session has ended, the cursor acquired for it has
\* been released.
C13_ReleasedOnExit ==
    pc = "failed" => curs # "open"

\* C14 as stated: iter_events is never waiting on the connection while a
\* notification is buffered in conn.notifies.
C14_NoWaitWhileBuffered ==
    (pc = "next" /\ it_pc = "select") => notifies = <<>>

\* C15 as stated: a wait that times out hands control to the caller of the
\* stream.
C15_TimeoutReturnsToCaller ==
    [][timeouts' # timeouts => pc' = "body"]_vars

\* C15 (amended): a wait that times out leaves control inside iter_events,
\* which prints "Timeout" and waits again; the caller gets control only
\* with an event that was yielded, never with a timeout signal.
C15_CallerOnlyGetsEvents ==
    pc = "body" =>
        /\ event # None
        /\ yielded # <<>>
        /\ event = Some(yielded[Len(yielded)])

C15_TimeoutStaysInside ==
    /\ []C15_CallerOnlyGetsEvents
    /\ [][timeouts' # timeouts =>
            /\ pc = "next" /\ pc' = "next"
            /\ it_pc' = "select"
            /\ event' = None
            /\ stdout' = Append(stdout, TimeoutLine)]_vars

\* every allowed timeout has happened and the stream is waiting again, the
\* caller never having had control
C15_Witness ==
    /\ mode = "STREAM"
    /\ SelectTimeout(it_timeout) # None
    /\ timeouts = MaxTimeouts
    /\ pc = "next"
    /\ it_pc = "select"
    /\ yielded = <<>>
    /\ stdout[Len(stdout)] = TimeoutLine

\* C17 as stated (no cancellation is modelled, so every end is the
\* session's own): a session in echo mode or in decoupled mode never ends.
C17_NoSelfExit ==
    mode \in {"ECHO", "DECOUPLED"} => pc # "failed"

\* the thread is inside the handler
InHandler == pc \in {"handler", "publish"}

\* C18: in inline mode the handler is called once for each yielded event,
\* with that event, while the generator is suspended at its yield; while a
\* call is in progress nothing is read from the socket, nothing is taken
\* from conn.notifies and nothing is yielded.
C18_OncePerEvent ==
    mode = "INLINE" =>
        /\ InHandler =>
              /\ it_pc = "yielded"
              /\ handled = yielded
              /\ event = Some(yielded[Len(yielded)])
        /\ pc = "body" => handled = SubSeq(yielded, 1, Len(yielded) - 1)
        /\ pc = "next" => handled = yielded

C18_Synchronous ==
    /\ []C18_OncePerEvent
    /\ [][InHandler =>
            /\ notifies' = notifies
            /\ yielded' = yielded
            /\ handled' = handled
            /\ IsPrefix(socket, socket')
            /\ (InHandler' => it_pc' = "yielded")]_vars

\* a notification arrived during the second handler call and is unread
C18_Witness ==
    /\ mode = "INLINE"
    /\ pc = "publish"
    /\ Len(handled) = 2
    /\ socket # <<>>
    /\ notifies = <<>>

\* C19: the delivered notifications are, in order, those yielded, then those
\* in conn.notifies, then those in the socket: each is in one place only,
\* and a yielded one is no longer buffered.
C19_Conservation ==
    Events(delivered) = yielded \o Events(notifies) \o Events(socket)

\* the handler failed on the second event: it is out of the buffers, the
\* later ones are all still buffered
C19_Witness ==
    /\ mode = "INLINE"
    /\ err = "HandlerError"
    /\ Len(yielded) = 2
    /\ Len(notifies) = 2
    /\ Len(socket) = 1
    /\ Len(delivered) = 5

\* the payloads by what they are
TablePayload ==
    <<"{", "\"", "t", "a", "b", "l", "e", "\"", ":", "\"", "u", "\"", "}">>
NoTablePayload == <<"{", "\"", "a", "\"", ":", "\"", "'", "\"", "}">>
ObjectPayloads == {TablePayload, NoTablePayload}
ExpectedTopic(payload) ==
    IF payload = TablePayload THEN <<"u">>
    ELSE <<"e", "v", "e", "n", "t", "s">>

\* the handler calls that have got as far as publishing or failing
Settled ==
    IF pc = "handler" THEN SubSeq(handled, 1, Len(handled) - 1) ELSE handled
IsObjectEvent(ev) == ev[3] \in ObjectPayloads

\* C20: to_mqtt calls publish.single exactly once for each event whose
\* payload is a JSON object, with the payload unchanged and the topic its
\* table field, or 'events' without one; for a payload that is not JSON it
\* fails and publishes nothing.
C20_OneMessagePerObject ==
    mode = "INLINE" =>
        LET objs == SelectSeq(Settled, IsObjectEvent) IN
        /\ Len(published) = Len(objs)
        /\ \A i \in DOMAIN objs :
              /\ published[i].payload = objs[i][3]
              /\ published[i].topic.kind = "str"
              /\ published[i].topic.chars = ExpectedTopic(objs[i][3])
        /\ (pc = "handler" /\ ~IsObjectEvent(event[1])) => ENABLED HandlerRaise
        /\ (pc = "handler" /\ ~IsObjectEvent(event[1])) => ~ENABLED ToMqttPublish

\* one message per object payload, the two topics, then the failure on the
\* payload that is not JSON
C20_Witness ==
    /\ mode = "INLINE"
    /\ pc = "failed"
    /\ Len(handled) = 3
    /\ ~IsObjectEvent(handled[3])
    /\ Len(published) = 2
    /\ published[1].topic.chars = <<"u">>
    /\ published[2].topic.chars = <<"e", "v", "e", "n", "t", "s">>

====
